---- MODULE Spec2Model ----
(***************************************************************************)
(* Rule-based categorization of bank transactions: the persisted store of *)
(* categories and keywords (storage.py), the rule compiler and the        *)
(* classification engine (categorization.py), keyword extraction          *)
(* (utils.py) and the learning loop of the dashboard (app.py).            *)
(*                                                                         *)
(* Text is a sequence of one-character strings, so that case folding,     *)
(* trimming, splitting and substring search are computed.                 *)
(***************************************************************************)
EXTENDS Integers, Sequences, FiniteSets, TLC

VARIABLES
    categories,      \* rows of table categories: [id, name, priority]
    keywords,        \* rows of table keywords: [id, category_id, pattern, is_regex, enabled]
    seq_categories,  \* AUTOINCREMENT counter of table categories
    seq_keywords,    \* AUTOINCREMENT counter of table keywords
    df_in,           \* the batch last handed to the classification engine
    rules,           \* the rule list last handed to the classification engine
    df_out,          \* what that call produced: [status, df]
    again,           \* TRUE when df_in is itself the output of the previous call
    details,         \* the text last handed to extract_keyword_from_details
    keyword,         \* what that call returned
    running          \* per session: where it stands in init_db or in the learning loop

vars == <<categories, keywords, seq_categories, seq_keywords,
          df_in, rules, df_out, again, details, keyword, running>>

storeVars == <<categories, keywords, seq_categories, seq_keywords>>
runVars == <<df_in, rules, df_out, again>>
extractVars == <<details, keyword>>

(***************************************************************************)
(* Text                                                                    *)
(***************************************************************************)
\* Python's None and pandas' NaN, kept apart from every text value.
None == <<"<None>">>
NaN == <<"<NaN>">>

IsSpace(c) == c \in {" "}
IsDigit(c) == c \in {"0", "1", "2", "3", "4", "5", "6", "7", "8", "9"}

LowerOf == [c \in {"A", "B", "C", "U"} |->
              CASE c = "A" -> "a" [] c = "B" -> "b" [] c = "C" -> "c" [] c = "U" -> "u"]
UpperOf == [c \in {"a", "b", "c", "u"} |->
              CASE c = "a" -> "A" [] c = "b" -> "B" [] c = "c" -> "C" [] c = "u" -> "U"]

lower_char(c) == IF c \in DOMAIN LowerOf THEN LowerOf[c] ELSE c
upper_char(c) == IF c \in DOMAIN UpperOf THEN UpperOf[c] ELSE c

\* str.lower() and str.upper()
lower(s) == [i \in 1..Len(s) |-> lower_char(s[i])]
upper(s) == [i \in 1..Len(s) |-> upper_char(s[i])]

RECURSIVE lstrip(_)
lstrip(s) == IF s /= <<>> /\ IsSpace(Head(s)) THEN lstrip(Tail(s)) ELSE s

RECURSIVE rstrip(_)
rstrip(s) ==
    IF s /= <<>> /\ IsSpace(s[Len(s)]) THEN rstrip(SubSeq(s, 1, Len(s) - 1)) ELSE s

\* str.strip()
strip(s) == rstrip(lstrip(s))

\* needle in hay
contains(hay, needle) ==
    \E i \in 0..(Len(hay) - Len(needle)) :
        \A j \in 1..Len(needle) : hay[i + j] = needle[j]

(***************************************************************************)
(* utils.extract_keyword_from_details                                      *)
(***************************************************************************)
MinTokenLen == 3

\* re.split(r"\s+", s): the pieces between maximal whitespace runs
RECURSIVE re_split_ws(_, _, _)
re_split_ws(s, cur, acc) ==
    IF s = <<>> THEN Append(acc, cur)
    ELSE IF IsSpace(Head(s))
         THEN re_split_ws(lstrip(s), <<>>, Append(acc, cur))
         ELSE re_split_ws(Tail(s), Append(cur, Head(s)), acc)

\* the number of leading digits of t
RECURSIVE digit_run(_)
digit_run(t) == IF t /= <<>> /\ IsDigit(Head(t)) THEN 1 + digit_run(Tail(t)) ELSE 0

\* re.fullmatch(r"\d+(\.\d+)?", t)
fullmatch_number(t) ==
    LET n == digit_run(t) IN
        /\ n >= 1
        /\ \/ n = Len(t)
           \/ /\ n + 1 < Len(t)
              /\ t[n + 1] = "."
              /\ LET rest == SubSeq(t, n + 2, Len(t)) IN digit_run(rest) = Len(rest)

\* [t for t in tokens if len(t) >= 3 and not re.fullmatch(...)]
is_candidate(t) == Len(t) >= MinTokenLen /\ ~fullmatch_number(t)

\* max(candidates, key=len): the first element of maximal length
RECURSIVE max_by_len(_, _)
max_by_len(cands, best) ==
    IF cands = <<>> THEN best
    ELSE max_by_len(Tail(cands),
                    IF Len(Head(cands)) > Len(best) THEN Head(cands) ELSE best)

extract_keyword_from_details(d) ==
    IF d = <<>> \/ d = None THEN None
    ELSE LET tokens == re_split_ws(strip(d), <<>>, <<>>)
             candidates == SelectSeq(tokens, is_candidate)
         IN IF candidates = <<>> THEN None
            ELSE upper(max_by_len(Tail(candidates), Head(candidates)))

(***************************************************************************)
(* The regular expressions of the model: a pattern is a sequence of       *)
(* literal characters, "^" (start of text) and "." (any character); a "(" *)
(* that no ")" closes does not compile (re.error).                        *)
(***************************************************************************)
re_compile_fails(p) ==
    \E i \in 1..Len(p) : p[i] = "(" /\ ~\E j \in (i + 1)..Len(p) : p[j] = ")"

\* the compiled pattern p matches text from position pos on, ignoring case
RECURSIVE re_match_at(_, _, _)
re_match_at(p, text, pos) ==
    IF p = <<>> THEN TRUE
    ELSE IF Head(p) = "^" THEN pos = 1 /\ re_match_at(Tail(p), text, pos)
    ELSE IF pos > Len(text) THEN FALSE
    ELSE IF Head(p) = "." THEN re_match_at(Tail(p), text, pos + 1)
    ELSE /\ lower_char(Head(p)) = lower_char(text[pos])
         /\ re_match_at(Tail(p), text, pos + 1)

\* re.compile(p, re.IGNORECASE).search(text)
re_search(p, text) == \E pos \in 1..(Len(text) + 1) : re_match_at(p, text, pos)

\* Series.str.contains(pat, case=False, regex=False): pat.upper() in x.upper()
str_contains_literal(column, pat) ==
    [i \in 1..Len(column) |-> contains(upper(column[i]), upper(pat))]

\* Series.str.contains(pat, case=False, regex=True), for a pattern that compiles
str_contains_regex(column, pat) ==
    [i \in 1..Len(column) |-> re_search(pat, column[i])]

(***************************************************************************)
(* categorization.apply_rules_vectorized                                   *)
(*                                                                         *)
(* A DataFrame is [has_category, Details, Category]: whether the column   *)
(* "Category" exists, and the two columns as sequences (Category is <<>>  *)
(* when the column does not exist). A CategoryRule is                     *)
(* [name, priority, patterns, is_regex_flags].                            *)
(***************************************************************************)
Uncategorized == <<"U", "n", "c", "a", "t", "e", "g", "o", "r", "i", "z", "e", "d">>

CategoryRule(name, priority, patterns, is_regex_flags) ==
    [name |-> name, priority |-> priority,
     patterns |-> patterns, is_regex_flags |-> is_regex_flags]

EmptyDf == [has_category |-> FALSE, Details |-> <<>>, Category |-> <<>>]
NotRun == [status |-> "none", df |-> EmptyDf]
Raised == [status |-> "raised", df |-> EmptyDf]
Returned(df) == [status |-> "returned", df |-> df]

Min(a, b) == IF a <= b THEN a ELSE b

mask_or(a, b) == [i \in 1..Len(a) |-> a[i] \/ b[i]]
mask_and(a, b) == [i \in 1..Len(a) |-> a[i] /\ b[i]]
mask_any(a) == \E i \in 1..Len(a) : a[i]

\* for pattern, is_regex in zip(rule.patterns, rule.is_regex_flags): ...
\* [raised, mask]: whether a pattern raised, and category_mask after the loop
RECURSIVE pattern_loop(_, _, _, _, _)
pattern_loop(patterns, flags, k, details_norm, category_mask) ==
    IF k > Min(Len(patterns), Len(flags))
    THEN [raised |-> FALSE, mask |-> category_mask]
    ELSE IF patterns[k] = <<>>
    THEN pattern_loop(patterns, flags, k + 1, details_norm, category_mask)
    ELSE IF flags[k]
    THEN IF re_compile_fails(patterns[k])
         THEN [raised |-> TRUE, mask |-> category_mask]
         ELSE pattern_loop(patterns, flags, k + 1, details_norm,
                  mask_or(category_mask, str_contains_regex(details_norm, patterns[k])))
    ELSE pattern_loop(patterns, flags, k + 1, details_norm,
             mask_or(category_mask,
                     str_contains_literal(details_norm, lower(patterns[k]))))

\* final_mask without the restriction to the uncategorized rows
final_mask_all(uncategorized_mask, category_mask) == category_mask

\* final_mask = uncategorized_mask & category_mask
final_mask(uncategorized_mask, category_mask) ==
    mask_and(uncategorized_mask, category_mask)

\* for rule in rules: ...
RECURSIVE rule_loop(_, _, _, _)
rule_loop(rule_list, r, details_norm, category) ==
    IF r > Len(rule_list) THEN [raised |-> FALSE, Category |-> category]
    ELSE LET rule == rule_list[r]
             uncategorized_mask ==
                 [i \in 1..Len(category) |-> category[i] = Uncategorized]
         IN IF ~mask_any(uncategorized_mask)
            THEN [raised |-> FALSE, Category |-> category]
            ELSE LET m == pattern_loop(rule.patterns, rule.is_regex_flags, 1,
                              details_norm,
                              [i \in 1..Len(category) |-> FALSE])
                 IN IF m.raised THEN [raised |-> TRUE, Category |-> category]
                    ELSE LET fm == final_mask(uncategorized_mask, m.mask)
                         IN rule_loop(rule_list, r + 1, details_norm,
                                [i \in 1..Len(category) |->
                                    IF fm[i] THEN rule.name ELSE category[i]])

apply_rules_vectorized(df, rule_list) ==
    LET category == IF df.has_category THEN df.Category
                    ELSE [i \in 1..Len(df.Details) |-> Uncategorized]
        details_norm == [i \in 1..Len(df.Details) |-> lower(df.Details[i])]
        out == rule_loop(rule_list, 1, details_norm, category)
    IN IF out.raised THEN Raised
       ELSE Returned([has_category |-> TRUE, Details |-> df.Details,
                      Category |-> out.Category])

(***************************************************************************)
(* storage.py: the SQLite store                                            *)
(***************************************************************************)
\* get_category_id_by_name returns None: no row id is 0 (AUTOINCREMENT starts at 1)
NoId == 0

DefaultPriority == 100
UncategorizedPriority == 999

CodePoint ==
    [c \in {" ", "(", ".", "1", "2", "A", "B", "C", "U", "^", "a", "b", "c", "d",
            "e", "g", "i", "n", "o", "r", "t", "u", "z"} |->
        CASE c = " " -> 32 [] c = "(" -> 40 [] c = "." -> 46 [] c = "1" -> 49
          [] c = "2" -> 50 [] c = "A" -> 65 [] c = "B" -> 66 [] c = "C" -> 67
          [] c = "U" -> 85 [] c = "^" -> 94 [] c = "a" -> 97 [] c = "b" -> 98
          [] c = "c" -> 99 [] c = "d" -> 100 [] c = "e" -> 101 [] c = "g" -> 103
          [] c = "i" -> 105 [] c = "n" -> 110 [] c = "o" -> 111 [] c = "r" -> 114
          [] c = "t" -> 116 [] c = "u" -> 117 [] c = "z" -> 122]

\* a < b in SQLite's BINARY collation (memcmp, then the shorter first)
RECURSIVE text_less(_, _)
text_less(a, b) ==
    IF b = <<>> THEN FALSE
    ELSE IF a = <<>> THEN TRUE
    ELSE IF Head(a) /= Head(b) THEN CodePoint[Head(a)] < CodePoint[Head(b)]
    ELSE text_less(Tail(a), Tail(b))

\* ORDER BY priority ASC alone: rows of equal priority come in rowid order
category_before_by_id(c1, c2) ==
    \/ c1.priority < c2.priority
    \/ c1.priority = c2.priority /\ c1.id < c2.id

\* ORDER BY priority ASC, name ASC
category_before(c1, c2) ==
    \/ c1.priority < c2.priority
    \/ c1.priority = c2.priority /\ text_less(c1.name, c2.name)

RECURSIVE order_categories(_)
order_categories(rows) ==
    IF rows = {} THEN <<>>
    ELSE LET first == CHOOSE c \in rows :
                          \A d \in rows \ {c} : category_before(c, d)
         IN <<first>> \o order_categories(rows \ {first})

\* ORDER BY id ASC
RECURSIVE order_by_id(_)
order_by_id(rows) ==
    IF rows = {} THEN <<>>
    ELSE LET first == CHOOSE k \in rows : \A l \in rows : k.id <= l.id
         IN <<first>> \o order_by_id(rows \ {first})

\* get_categories_with_keywords(): every category row, in the order of the first
\* SELECT, with the keywords that name its id, in the order of the second
get_categories_with_keywords(cats, kws) ==
    LET categories_rows == order_categories(cats)
        keywords_rows == order_by_id(kws)
        of(cat) == SelectSeq(keywords_rows, LAMBDA k : k.category_id = cat.id)
    IN [n \in 1..Len(categories_rows) |->
          [id |-> categories_rows[n].id,
           name |-> categories_rows[n].name,
           priority |-> categories_rows[n].priority,
           keywords |-> [m \in 1..Len(of(categories_rows[n])) |->
                           [id |-> of(categories_rows[n])[m].id,
                            pattern |-> of(categories_rows[n])[m].pattern,
                            is_regex |-> of(categories_rows[n])[m].is_regex,
                            enabled |-> of(categories_rows[n])[m].enabled]]]]

\* get_category_id_by_name(name)
get_category_id_by_name(cats, name) ==
    LET cleaned == strip(name) IN
        IF cleaned = <<>> THEN NoId
        ELSE IF \E c \in cats : c.name = cleaned
             THEN (CHOOSE c \in cats : c.name = cleaned).id
             ELSE NoId

\* INSERT OR IGNORE INTO categories (name, priority): [rows, seq] afterwards.
\* The AUTOINCREMENT table takes the next id before the UNIQUE constraint on
\* name is checked, so an ignored insert uses up an id as well.
insert_or_ignore_category(cats, seq, name, priority) ==
    IF \E c \in cats : c.name = name
    THEN [rows |-> cats, seq |-> seq + 1]
    ELSE [rows |-> cats \cup {[id |-> seq + 1, name |-> name, priority |-> priority]},
          seq |-> seq + 1]

\* add_category storing the name as it was given
add_category_rows_unstripped(cats, seq, name, priority) ==
    insert_or_ignore_category(cats, seq, name, priority)

\* add_category(name, priority): [rows, seq] afterwards
add_category_rows(cats, seq, name, priority) ==
    LET cleaned == strip(name) IN
        IF cleaned = <<>> THEN [rows |-> cats, seq |-> seq]
        ELSE insert_or_ignore_category(cats, seq, cleaned, priority)

\* add_keyword(category_id, pattern, is_regex): [rows, seq] afterwards
add_keyword_rows(kws, seq, category_id, pattern, is_regex) ==
    LET cleaned == strip(pattern) IN
        IF cleaned = <<>> THEN [rows |-> kws, seq |-> seq]
        ELSE [rows |-> kws \cup {[id |-> seq + 1, category_id |-> category_id,
                                  pattern |-> cleaned, is_regex |-> is_regex,
                                  enabled |-> TRUE]},
              seq |-> seq + 1]

\* UPDATE keywords SET enabled = ? without the WHERE clause
toggle_keyword_rows_all(kws, keyword_id, enabled) ==
    {[k EXCEPT !.enabled = enabled] : k \in kws}

\* UPDATE keywords SET enabled = ? WHERE id = ?
toggle_keyword_rows(kws, keyword_id, enabled) ==
    {IF k.id = keyword_id THEN [k EXCEPT !.enabled = enabled] ELSE k : k \in kws}

\* categories.json: absent (or not valid JSON), or an object read as the list
\* of its entries [name, is_list, keywords] in file order
NoJson == [present |-> FALSE, data |-> <<>>]
JsonFile(data) == [present |-> TRUE, data |-> data]

(***************************************************************************)
(* A session is one browser tab running the script of app.py. Every call  *)
(* of a storage function opens its own connection and commits on leaving  *)
(* it, so init_db with its migration and the learning loop are sequences  *)
(* of transactions between which the other sessions act, and so is the    *)
(* read of the category list followed by "Añadir keyword". A session's    *)
(* position is [pc, listed, data, list, todo, cat_id]:                    *)
(*   pc      the transaction it runs next: "idle" between two runs of the *)
(*           script, "sidebar" once the run has read the category list,   *)
(*   listed  the ids of the categories in the list the run has read,      *)
(*   data    the entries of categories.json from the current one on,      *)
(*   list    the keywords of the current entry from the current one on,   *)
(*   todo    the changed rows of the edited table from the current one on,*)
(*   cat_id  the id the last lookup returned.                             *)
(***************************************************************************)
Idle == [pc |-> "idle", listed |-> {}, data |-> <<>>, list |-> <<>>, todo |-> <<>>,
         cat_id |-> NoId]

\* the script is not inside init_db or the learning loop
at_rest(s) == running[s].pc \in {"idle", "sidebar"}

\* for name, keywords in data.items(): the position at the first entry from
\* data on whose name is neither blank nor "Uncategorized"
RECURSIVE next_entry(_)
next_entry(data) ==
    IF data = <<>> THEN Idle
    ELSE LET cleaned_name == strip(Head(data).name) IN
             IF cleaned_name = <<>> \/ cleaned_name = Uncategorized
             THEN next_entry(Tail(data))
             ELSE [Idle EXCEPT !.pc = "add_category", !.data = data]

\* for kw in keywords: the position at the first keyword from list on that is
\* not blank, or at the next entry when there is none
RECURSIVE next_keyword(_, _, _)
next_keyword(data, cat_id, list) ==
    IF list = <<>> THEN next_entry(Tail(data))
    ELSE IF strip(Head(list)) = <<>> THEN next_keyword(data, cat_id, Tail(list))
    ELSE [Idle EXCEPT !.pc = "add_keyword", !.data = data,
                      !.list = list, !.cat_id = cat_id]

(***************************************************************************)
(* categorization.build_rules_from_storage, categorize_transactions        *)
(***************************************************************************)
\* list.sort(key=lambda r: r.priority): a stable sort, by insertion
RECURSIVE insert_by_priority(_, _)
insert_by_priority(sorted, r) ==
    IF sorted = <<>> THEN <<r>>
    ELSE IF sorted[Len(sorted)].priority <= r.priority THEN Append(sorted, r)
    ELSE Append(insert_by_priority(SubSeq(sorted, 1, Len(sorted) - 1), r),
                sorted[Len(sorted)])

RECURSIVE sort_by_priority(_, _)
sort_by_priority(rule_list, sorted) ==
    IF rule_list = <<>> THEN sorted
    ELSE sort_by_priority(Tail(rule_list), insert_by_priority(sorted, Head(rule_list)))

\* the loop over categories without the filter on enabled keywords
RECURSIVE rules_of_all(_)
rules_of_all(cat_list) ==
    IF cat_list = <<>> THEN <<>>
    ELSE LET cat == Head(cat_list)
         IN IF cat.name = Uncategorized \/ cat.keywords = <<>>
            THEN rules_of_all(Tail(cat_list))
            ELSE <<CategoryRule(cat.name, cat.priority,
                       [m \in 1..Len(cat.keywords) |-> cat.keywords[m].pattern],
                       [m \in 1..Len(cat.keywords) |-> cat.keywords[m].is_regex])>>
                 \o rules_of_all(Tail(cat_list))

\* the loop over categories: one rule for each category kept
RECURSIVE rules_of(_)
rules_of(cat_list) ==
    IF cat_list = <<>> THEN <<>>
    ELSE LET cat == Head(cat_list)
             enabled_keywords == SelectSeq(cat.keywords, LAMBDA k : k.enabled)
         IN IF cat.name = Uncategorized \/ enabled_keywords = <<>>
            THEN rules_of(Tail(cat_list))
            ELSE <<CategoryRule(cat.name, cat.priority,
                       [m \in 1..Len(enabled_keywords) |-> enabled_keywords[m].pattern],
                       [m \in 1..Len(enabled_keywords) |-> enabled_keywords[m].is_regex])>>
                 \o rules_of(Tail(cat_list))

build_rules_from_storage(cats, kws) ==
    sort_by_priority(rules_of(get_categories_with_keywords(cats, kws)), <<>>)

categorize_transactions(cats, kws, df) ==
    apply_rules_vectorized(df, build_rules_from_storage(cats, kws))

(***************************************************************************)
(* app.main: "Aplicar cambios y aprender nuevas keywords"                  *)
(*                                                                         *)
(* An edited row is [Details, Category, NewCategory]: the category the    *)
(* engine gave and the category the editor holds.                         *)
(***************************************************************************)
\* for _, row in changed.iterrows(): the position at the first row from todo on
\* whose details yield a keyword, cat_id still holding what the lookup of the
\* row before returned
RECURSIVE next_row(_, _)
next_row(todo, cat_id) ==
    IF todo = <<>> THEN Idle
    ELSE IF extract_keyword_from_details(Head(todo).Details) = None
         THEN next_row(Tail(todo), cat_id)
         ELSE [Idle EXCEPT !.pc = "learn_get_category_id", !.todo = todo,
                           !.cat_id = cat_id]

\* changed taken to be every row of merged, edited or not
changed_rows_all(merged) == merged

\* changed = merged[merged["Category"] != merged["NewCategory"]]
changed_rows(merged) == SelectSeq(merged, LAMBDA row : row.Category /= row.NewCategory)

(***************************************************************************)
(* Bounds and inputs                                                       *)
(***************************************************************************)
MaxCategoryId == 3   \* categories ever created, "Uncategorized" included
MaxKeywordId == 3    \* keywords ever created
MaxEdits == 2        \* rows of one edited table
MaxRunning == 1      \* sessions inside init_db or the learning loop at the same time
MaxUpload == 2       \* rows of an uploaded file
MaxBatch == 2        \* rows of a batch handed to the engine directly
MaxRules == 2        \* rules of a rule list handed to the engine directly
MaxLen == 8          \* characters of a text drawn character by character
MaxTokens == 4       \* tokens of a text drawn token by token

SeqsUpTo(S, n) == UNION {[1..m -> S] : m \in 0..n}

NameA == <<"A">>
NameB == <<"B">>
NameInputs == {NameA, NameB, <<" ", "A">>, <<" ">>, Uncategorized}
\* "Prioridad (menor = más importante)": number_input(max_value=999, value=100)
MaxPriority == 999
PriorityInputs == {DefaultPriority, MaxPriority}

\* (pattern, is_regex) as typed into "Texto o regex" / "Interpretar como regex"
TypedKeyword == <<"A", "B", "A">>
KeywordInputs == {<<TypedKeyword, FALSE>>, <<<<" ", "A", "B", "A">>, FALSE>>,
                  <<<<"(">>, TRUE>>, <<<<" ">>, FALSE>>}

\* categories.json as init_db may find it
JsonInputs ==
    {NoJson,
     JsonFile(<<[name |-> <<" ">>, is_list |-> TRUE, keywords |-> <<TypedKeyword>>],
                [name |-> Uncategorized, is_list |-> TRUE, keywords |-> <<TypedKeyword>>],
                [name |-> NameA, is_list |-> FALSE, keywords |-> <<>>]>>),
     JsonFile(<<[name |-> <<" ", "B">>, is_list |-> TRUE,
                 keywords |-> <<<<" ", "A", "B", "A">>, <<" ">>>>],
                [name |-> NameB, is_list |-> TRUE, keywords |-> <<TypedKeyword>>]>>)}

\* Details of uploaded transactions
DetailsAba == <<"a", "b", "a", " ", "1", "2">>
DetailsNum == <<"1", "2">>
UploadDetails == {DetailsAba, DetailsNum}
UploadInputs ==
    {[has_category |-> FALSE, Details |-> d, Category |-> <<>>] :
        d \in SeqsUpTo(UploadDetails, MaxUpload)}

\* rows of the edited table: left as it was, changed without a keyword in the
\* details, changed with one, changed to "Uncategorized"
EditRows ==
    {[Details |-> DetailsAba, Category |-> NameA, NewCategory |-> NameA],
     [Details |-> DetailsNum, Category |-> NameA, NewCategory |-> NameB],
     [Details |-> DetailsAba, Category |-> NameA, NewCategory |-> NameB],
     [Details |-> DetailsAba, Category |-> NameA, NewCategory |-> Uncategorized]}
EditInputs == SeqsUpTo(EditRows, MaxEdits)

Sessions == 1..MaxRunning

(***************************************************************************)
(* The store and the dashboard's handlers                                  *)
(***************************************************************************)
\* the database after the first session's init_db has created the tables and
\* inserted "Uncategorized"; that session goes on to the migration
Init ==
    /\ categories = {[id |-> 1, name |-> Uncategorized, priority |-> UncategorizedPriority]}
    /\ keywords = {}
    /\ seq_categories = 1
    /\ seq_keywords = 0
    /\ df_in = EmptyDf
    /\ rules = <<>>
    /\ df_out = NotRun
    /\ again = FALSE
    /\ details = None
    /\ keyword = None
    /\ running = [s \in Sessions |-> IF s = 1 THEN [Idle EXCEPT !.pc = "migrate"] ELSE Idle]

\* init_db() of a session that starts on the existing database:
\* INSERT OR IGNORE 'Uncategorized', 999, committed before the migration
init_db_of(s) ==
    LET after == insert_or_ignore_category(categories, seq_categories,
                                           Uncategorized, UncategorizedPriority)
    IN /\ at_rest(s)
       /\ after.seq <= MaxCategoryId
       /\ categories' = after.rows
       /\ seq_categories' = after.seq
       /\ running' = [running EXCEPT ![s] = [Idle EXCEPT !.pc = "migrate"]]
       /\ UNCHANGED <<keywords, seq_keywords, runVars, extractVars>>

init_db == \E s \in Sessions : init_db_of(s)

\* migrate_from_json_if_present() up to the loop: no file, or a category other
\* than "Uncategorized" is there, or the file is read and the loop entered
migrate_guard_of(s) ==
    \E json \in JsonInputs :
        /\ running[s].pc = "migrate"
        /\ running' = [running EXCEPT ![s] =
               IF ~json.present \/ \E c \in categories : c.name /= Uncategorized
               THEN Idle
               ELSE next_entry(json.data)]
        /\ UNCHANGED <<storeVars, runVars, extractVars>>

migrate_guard == \E s \in Sessions : migrate_guard_of(s)

\* add_category(cleaned_name) of the migration loop
migrate_add_category_of(s) ==
    LET after == add_category_rows(categories, seq_categories,
                                   strip(Head(running[s].data).name), DefaultPriority)
    IN /\ running[s].pc = "add_category"
       /\ after.seq <= MaxCategoryId
       /\ categories' = after.rows
       /\ seq_categories' = after.seq
       /\ running' = [running EXCEPT ![s].pc = "get_category_id"]
       /\ UNCHANGED <<keywords, seq_keywords, runVars, extractVars>>

migrate_add_category == \E s \in Sessions : migrate_add_category_of(s)

\* cat_id = get_category_id_by_name(cleaned_name) of the migration loop
migrate_get_category_id_of(s) ==
    LET entry == Head(running[s].data)
        cat_id == get_category_id_by_name(categories, strip(entry.name))
    IN /\ running[s].pc = "get_category_id"
       /\ running' = [running EXCEPT ![s] =
              IF cat_id = NoId \/ ~entry.is_list
              THEN next_entry(Tail(running[s].data))
              ELSE next_keyword(running[s].data, cat_id, entry.keywords)]
       /\ UNCHANGED <<storeVars, runVars, extractVars>>

migrate_get_category_id == \E s \in Sessions : migrate_get_category_id_of(s)

\* add_keyword(cat_id, cleaned_kw, is_regex=False) of the migration loop
migrate_add_keyword_of(s) ==
    LET after == add_keyword_rows(keywords, seq_keywords, running[s].cat_id,
                                  strip(Head(running[s].list)), FALSE)
    IN /\ running[s].pc = "add_keyword"
       /\ after.seq <= MaxKeywordId
       /\ keywords' = after.rows
       /\ seq_keywords' = after.seq
       /\ running' = [running EXCEPT ![s] =
              next_keyword(running[s].data, running[s].cat_id, Tail(running[s].list))]
       /\ UNCHANGED <<categories, seq_categories, runVars, extractVars>>

migrate_add_keyword == \E s \in Sessions : migrate_add_keyword_of(s)

\* categories = get_categories_with_keywords() of the sidebar: a run of the
\* script reads the list its expanders and buttons are drawn from. Of the
\* list, the position keeps the category ids: the keyword buttons act the
\* same on a keyword id the list shows and on any other id.
show_category_management_of(s) ==
    /\ at_rest(s)
    /\ running' = [running EXCEPT ![s] =
           [Idle EXCEPT !.pc = "sidebar", !.listed = {c.id : c \in categories}]]
    /\ UNCHANGED <<storeVars, runVars, extractVars>>

show_category_management == \E s \in Sessions : show_category_management_of(s)

\* "Crear categoría"
add_category ==
    \E name \in NameInputs, priority \in PriorityInputs :
        LET after == add_category_rows(categories, seq_categories, name, priority)
        IN /\ after.seq <= MaxCategoryId
           /\ categories' = after.rows
           /\ seq_categories' = after.seq
           /\ UNCHANGED <<keywords, seq_keywords, runVars, extractVars, running>>

\* DELETE FROM categories WHERE id = ? for the id of any category, as the
\* dashboard would without its check on the name "Uncategorized"
delete_category_by_id ==
    \E category_id \in {c.id : c \in categories} :
        /\ categories' = {c \in categories : c.id /= category_id}
        /\ UNCHANGED <<keywords, seq_categories, seq_keywords,
                       runVars, extractVars, running>>

\* DELETE FROM categories WHERE id = ?  (the connection never turns foreign keys
\* on, so the keywords of the category stay). The id is one the dashboard
\* offers "Eliminar categoría" for: any category but "Uncategorized". For an
\* id of the list whose category is gone by now the statement deletes nothing.
delete_category ==
    \E category_id \in {c.id : c \in {x \in categories : x.name /= Uncategorized}} :
        /\ categories' = {c \in categories : c.id /= category_id}
        /\ UNCHANGED <<keywords, seq_categories, seq_keywords,
                       runVars, extractVars, running>>

\* "Añadir keyword", in the expander of a category of the list that the run
\* has read: add_keyword(cat["id"], ...), then the run ends
add_keyword_of(s) ==
    \E category_id \in running[s].listed, kw \in KeywordInputs :
        LET after == add_keyword_rows(keywords, seq_keywords, category_id, kw[1], kw[2])
        IN /\ running[s].pc = "sidebar"
           /\ after.seq <= MaxKeywordId
           /\ keywords' = after.rows
           /\ seq_keywords' = after.seq
           /\ running' = [running EXCEPT ![s] = Idle]
           /\ UNCHANGED <<categories, seq_categories, runVars, extractVars>>

add_keyword == \E s \in Sessions : add_keyword_of(s)

delete_keyword ==
    \E keyword_id \in 1..MaxKeywordId :
        /\ keywords' = {k \in keywords : k.id /= keyword_id}
        /\ UNCHANGED <<categories, seq_categories, seq_keywords,
                       runVars, extractVars, running>>

toggle_keyword_enabled ==
    \E keyword_id \in 1..MaxKeywordId, enabled \in BOOLEAN :
        /\ keywords' = toggle_keyword_rows(keywords, keyword_id, enabled)
        /\ UNCHANGED <<categories, seq_categories, seq_keywords,
                       runVars, extractVars, running>>

\* the button "Aplicar cambios y aprender nuevas keywords", for the table
\* merged: the changed rows are taken and the loop over them entered
learn_click_of(s, merged) ==
    /\ at_rest(s)
    /\ UNCHANGED <<storeVars, runVars, extractVars>>
    /\ running' = [running EXCEPT ![s] = next_row(changed_rows(merged), NoId)]

learn_click == \E s \in Sessions, merged \in EditInputs : learn_click_of(s, merged)

\* cat_id = get_category_id_by_name(new_cat_name) of the learning loop
learn_get_category_id_of(s) ==
    LET todo == running[s].todo
        cat_id == get_category_id_by_name(categories, Head(todo).NewCategory)
    IN /\ running[s].pc = "learn_get_category_id"
       /\ UNCHANGED <<storeVars, runVars, extractVars>>
       /\ running' = [running EXCEPT ![s] =
              IF cat_id = NoId
              THEN next_row(Tail(todo), NoId)
              ELSE [Idle EXCEPT !.pc = "learn_add_keyword",
                                !.todo = todo, !.cat_id = cat_id]]

learn_get_category_id == \E s \in Sessions : learn_get_category_id_of(s)

\* add_keyword(cat_id, keyword, is_regex=False) of the learning loop
learn_add_keyword_of(s) ==
    LET todo == running[s].todo
        after == add_keyword_rows(keywords, seq_keywords, running[s].cat_id,
                                  extract_keyword_from_details(Head(todo).Details), FALSE)
    IN /\ running[s].pc = "learn_add_keyword"
       /\ UNCHANGED <<categories, seq_categories, runVars, extractVars>>
       /\ after.seq <= MaxKeywordId
       /\ seq_keywords' = after.seq
       /\ keywords' = after.rows
       /\ running' = [running EXCEPT ![s] = next_row(Tail(todo), running[s].cat_id)]

learn_add_keyword == \E s \in Sessions : learn_add_keyword_of(s)

Next ==
    \/ init_db
    \/ migrate_guard
    \/ migrate_add_category
    \/ migrate_get_category_id
    \/ migrate_add_keyword
    \/ show_category_management
    \/ add_category
    \/ delete_category
    \/ add_keyword
    \/ delete_keyword
    \/ toggle_keyword_enabled
    \/ learn_click
    \/ learn_get_category_id
    \/ learn_add_keyword

Spec == Init /\ [][Next]_vars

\* the store under the dashboard's single-transaction handlers alone, every
\* session idle: the migration and the learning loop write to the store
\* through add_category and add_keyword as well
InitHandlers ==
    /\ categories = {[id |-> 1, name |-> Uncategorized, priority |-> UncategorizedPriority]}
    /\ keywords = {}
    /\ seq_categories = 1
    /\ seq_keywords = 0
    /\ df_in = EmptyDf
    /\ rules = <<>>
    /\ df_out = NotRun
    /\ again = FALSE
    /\ details = None
    /\ keyword = None
    /\ running = [s \in Sessions |-> Idle]

NextHandlers ==
    \/ show_category_management
    \/ add_category
    \/ delete_category
    \/ add_keyword
    \/ delete_keyword
    \/ toggle_keyword_enabled

SpecHandlers == InitHandlers /\ [][NextHandlers]_vars

\* storage.delete_category(category_id) for any id
storage_delete_category ==
    \E category_id \in 1..MaxCategoryId :
        /\ categories' = {c \in categories : c.id /= category_id}
        /\ UNCHANGED <<keywords, seq_categories, seq_keywords,
                       runVars, extractVars, running>>

\* storage.update_category_priority(category_id, priority)
update_category_priority ==
    \E category_id \in 1..MaxCategoryId, priority \in PriorityInputs :
        /\ categories' = {IF c.id = category_id THEN [c EXCEPT !.priority = priority]
                          ELSE c : c \in categories}
        /\ UNCHANGED <<keywords, seq_categories, seq_keywords,
                       runVars, extractVars, running>>

\* storage.add_keyword(category_id, pattern, is_regex) for any id: the
\* connection does not check that the category exists
storage_add_keyword ==
    \E category_id \in 1..MaxCategoryId, kw \in KeywordInputs :
        LET after == add_keyword_rows(keywords, seq_keywords, category_id, kw[1], kw[2])
        IN /\ after.seq <= MaxKeywordId
           /\ keywords' = after.rows
           /\ seq_keywords' = after.seq
           /\ UNCHANGED <<categories, seq_categories, runVars, extractVars, running>>

\* the store with every session idle: the functions of storage.py that are one
\* transaction each, called in any order with any argument
InitStorage == InitHandlers

NextStorage ==
    \/ add_category
    \/ storage_delete_category
    \/ update_category_priority
    \/ storage_add_keyword
    \/ delete_keyword
    \/ toggle_keyword_enabled

SpecStorage == InitStorage /\ [][NextStorage]_vars

(***************************************************************************)
(* The classification engine called directly: a batch and a rule list are  *)
(* drawn, apply_rules_vectorized classifies the batch, and its output is   *)
(* classified once more with the same rules.                               *)
(***************************************************************************)
PreAssigned == <<"Z">>
NameX == <<"X">>
NameY == <<"Y">>

ClassifyDetails == {<<"A", "b">>, <<"b", "a">>, <<"(", "c">>}

BatchInputs ==
    {[has_category |-> FALSE, Details |-> d, Category |-> <<>>] :
        d \in SeqsUpTo(ClassifyDetails, MaxBatch)}
    \cup
    {[has_category |-> TRUE,
      Details |-> [i \in 1..Len(rows) |-> rows[i][1]],
      Category |-> [i \in 1..Len(rows) |-> rows[i][2]]] :
        rows \in SeqsUpTo(ClassifyDetails \X {Uncategorized, PreAssigned, NaN}, MaxBatch)}

RuleInputs ==
    {CategoryRule(NameX, 1, <<<<"a">>>>, <<FALSE>>),
     CategoryRule(NameY, 2, <<<<"^", "a">>>>, <<TRUE>>),
     CategoryRule(NameX, 3, <<<<"(">>, <<"c">>>>, <<TRUE, FALSE>>),
     CategoryRule(NameY, 4, <<<<"c">>, <<"(">>>>, <<FALSE, TRUE>>),
     CategoryRule(NameX, 5, <<<<>>, <<"B">>>>, <<FALSE, FALSE>>),
     CategoryRule(NameY, 6, <<<<"(">>>>, <<FALSE>>),
     CategoryRule(Uncategorized, 7, <<<<"a">>>>, <<FALSE>>)}

RuleListInputs == SeqsUpTo(RuleInputs, MaxRules)

InitClassify ==
    /\ categories = {[id |-> 1, name |-> Uncategorized, priority |-> UncategorizedPriority]}
    /\ keywords = {}
    /\ seq_categories = 1
    /\ seq_keywords = 0
    /\ df_in \in BatchInputs
    /\ rules \in RuleListInputs
    /\ df_out = NotRun
    /\ again = FALSE
    /\ details = None
    /\ keyword = None
    /\ running = [s \in Sessions |-> Idle]

\* result = apply_rules_vectorized(df, rules)
classify ==
    /\ df_out.status = "none"
    /\ df_out' = apply_rules_vectorized(df_in, rules)
    /\ UNCHANGED <<storeVars, df_in, rules, again, extractVars, running>>

\* apply_rules_vectorized(result, rules): the classified batch classified again
classify_again ==
    /\ df_out.status = "returned"
    /\ ~again
    /\ df_in' = df_out.df
    /\ df_out' = apply_rules_vectorized(df_out.df, rules)
    /\ again' = TRUE
    /\ UNCHANGED <<storeVars, rules, extractVars, running>>

NextClassify ==
    \/ classify
    \/ classify_again

SpecClassify == InitClassify /\ [][NextClassify]_vars

(***************************************************************************)
(* Keyword extraction called directly on a drawn text.                     *)
(***************************************************************************)
NotCalled == <<"<NotCalled>">>

ExtractAlphabet == {"a", "1", ".", " "}

\* tokens: too short, words of three, four and five characters, numbers with
\* and without a decimal point, digits that end or begin with a decimal point
ExtractTokens ==
    {<<"a", "b">>, <<"a", "b", "a">>, <<"b", "a", "b">>,
     <<"a", "b", "a", "b">>, <<"b", "a", "b", "a">>, <<"a", "b", "a", "b", "a">>,
     <<"1", "2", "3", "4">>, <<"4", "5", ".", "6", "7">>,
     <<"1", "2", "3", "4", "5", ".">>, <<".", "5", "0">>}

RECURSIVE join_tokens(_)
join_tokens(ts) ==
    IF ts = <<>> THEN <<>>
    ELSE IF Len(ts) = 1 THEN Head(ts)
         ELSE Head(ts) \o <<" ">> \o join_tokens(Tail(ts))

\* every text of up to MaxLen characters, and every text of up to MaxTokens
\* tokens separated by one space
ExtractInputs ==
    SeqsUpTo(ExtractAlphabet, MaxLen)
        \cup {join_tokens(ts) : ts \in SeqsUpTo(ExtractTokens, MaxTokens)}

InitExtract ==
    /\ categories = {[id |-> 1, name |-> Uncategorized, priority |-> UncategorizedPriority]}
    /\ keywords = {}
    /\ seq_categories = 1
    /\ seq_keywords = 0
    /\ df_in = EmptyDf
    /\ rules = <<>>
    /\ df_out = NotRun
    /\ again = FALSE
    /\ details \in ExtractInputs
    /\ keyword = NotCalled
    /\ running = [s \in Sessions |-> Idle]

\* keyword = extract_keyword_from_details(details)
extract ==
    /\ keyword = NotCalled
    /\ keyword' = extract_keyword_from_details(details)
    /\ UNCHANGED <<storeVars, runVars, details, running>>

NextExtract ==
    \/ extract

SpecExtract == InitExtract /\ [][NextExtract]_vars

(***************************************************************************)
(* Properties of the classification engine (SpecClassify)                  *)
(***************************************************************************)
\* a pattern of a rule matches the details d: substring containment for
\* is_regex = FALSE, search for is_regex = TRUE, both ignoring case; an empty
\* pattern and a pattern that does not compile match nothing
pattern_matches(pattern, is_regex, d) ==
    /\ pattern /= <<>>
    /\ IF is_regex
       THEN ~re_compile_fails(pattern) /\ re_search(pattern, lower(d))
       ELSE contains(lower(d), lower(pattern))

rule_matches(rule, d) ==
    \E k \in 1..Min(Len(rule.patterns), Len(rule.is_regex_flags)) :
        pattern_matches(rule.patterns[k], rule.is_regex_flags[k], d)

has_malformed(rule) ==
    \E k \in 1..Min(Len(rule.patterns), Len(rule.is_regex_flags)) :
        /\ rule.patterns[k] /= <<>>
        /\ rule.is_regex_flags[k]
        /\ re_compile_fails(rule.patterns[k])

\* the per-transaction reference: the name of the first rule of the list that
\* matches d, "Uncategorized" when none does
first_match(rule_list, d) ==
    IF \E r \in 1..Len(rule_list) : rule_matches(rule_list[r], d)
    THEN LET r == CHOOSE r \in 1..Len(rule_list) :
                      /\ rule_matches(rule_list[r], d)
                      /\ \A q \in 1..(r - 1) : ~rule_matches(rule_list[q], d)
         IN rule_list[r].name
    ELSE Uncategorized

no_preassigned(df) ==
    ~df.has_category \/ \A i \in 1..Len(df.Category) : df.Category[i] = Uncategorized

entered_as(df, i) == IF df.has_category THEN df.Category[i] ELSE Uncategorized

\* C2: for a batch with no pre-assigned categories and any rule list (no rule
\* of which is itself named "Uncategorized"), the call gives every transaction
\* the name of the first rule in list order with a matching pattern, and
\* "Uncategorized" exactly when no rule matches.
C2_FirstMatchReference ==
    (/\ df_out.status /= "none"
     /\ ~again
     /\ no_preassigned(df_in)
     /\ \A r \in 1..Len(rules) : rules[r].name /= Uncategorized)
    => /\ df_out.status = "returned"
       /\ \A i \in 1..Len(df_in.Details) :
              df_out.df.Category[i] = first_match(rules, df_in.Details[i])

\* C3: a rule list holding a regex pattern that does not compile never aborts
\* the call: a categorized batch is returned, in which that pattern matches
\* nothing and every other pattern and rule is applied as usual.
C3_MalformedRegexNeverAborts ==
    (/\ df_out.status /= "none"
     /\ ~again
     /\ no_preassigned(df_in)
     /\ \E r \in 1..Len(rules) : has_malformed(rules[r])
     /\ \A r \in 1..Len(rules) : rules[r].name /= Uncategorized)
    => /\ df_out.status = "returned"
       /\ \A i \in 1..Len(df_in.Details) :
              df_out.df.Category[i] = first_match(rules, df_in.Details[i])

\* C4: in the batch the call returns, every transaction has a category that is
\* not null, also when the input had a Category column with missing values.
C4_EveryCategoryDefined ==
    df_out.status = "returned"
    => \A i \in 1..Len(df_out.df.Category) : df_out.df.Category[i] /= NaN

\* C5: the call never changes the category of a transaction that enters with a
\* category other than "Uncategorized", and classifying the returned batch
\* again with the same rules returns the same batch.
C5_AssignedCategoriesKept ==
    /\ (df_out.status = "returned" /\ df_in.has_category)
       => \A i \in 1..Len(df_in.Category) :
              df_in.Category[i] /= Uncategorized
              => df_out.df.Category[i] = df_in.Category[i]
    /\ again => /\ df_out.status = "returned"
                /\ df_out.df = df_in

\* the batch was classified twice; a transaction that entered as PreAssigned
\* matches the first rule and kept its category, another one was categorized
C5_Witness ==
    /\ again
    /\ df_out.status = "returned"
    /\ \E i, j \in 1..Len(df_in.Details) :
          /\ df_in.Category[i] = PreAssigned
          /\ Len(rules) >= 1 /\ rule_matches(rules[1], df_in.Details[i])
          /\ df_out.df.Category[i] = PreAssigned
          /\ df_out.df.Category[j] \in {NameX, NameY}

\* The engine agrees with the per-transaction reference whenever it returns:
\* a transaction that entered "Uncategorized" gets the name of the first
\* matching rule not named "Uncategorized".
EngineAgreesWithReference ==
    (df_out.status = "returned" /\ ~again)
    => \A i \in 1..Len(df_in.Details) :
          df_out.df.Category[i] =
              IF entered_as(df_in, i) = Uncategorized
              THEN first_match(SelectSeq(rules, LAMBDA r : r.name /= Uncategorized),
                               df_in.Details[i])
              ELSE entered_as(df_in, i)

\* The call raises exactly when a pattern that does not compile is reached
\* while some transaction is still "Uncategorized".
RaisesOnlyOnMalformed ==
    (df_out.status = "raised") => \E r \in 1..Len(rules) : has_malformed(rules[r])

(***************************************************************************)
(* Properties of keyword extraction (SpecExtract)                          *)
(***************************************************************************)
\* d[s..e] is a token of d: a maximal run of characters that are not whitespace
is_token(d, s, e) ==
    /\ 1 <= s /\ s <= e /\ e <= Len(d)
    /\ \A i \in s..e : ~IsSpace(d[i])
    /\ s = 1 \/ IsSpace(d[s - 1])
    /\ e = Len(d) \/ IsSpace(d[e + 1])

\* digits, optionally with one decimal point
purely_numeric(t) ==
    /\ \A i \in 1..Len(t) : IsDigit(t[i]) \/ t[i] = "."
    /\ \E i \in 1..Len(t) : IsDigit(t[i])
    /\ Cardinality({i \in 1..Len(t) : t[i] = "."}) <= 1

\* digits, optionally with one decimal point that has a digit on each side
digits_around_point(t) ==
    /\ purely_numeric(t)
    /\ IsDigit(t[1]) /\ IsDigit(t[Len(t)])

\* the token d[s..e] remains after the short and the numeric tokens are dropped
remains(d, s, e) ==
    /\ is_token(d, s, e)
    /\ e - s + 1 >= MinTokenLen
    /\ ~purely_numeric(SubSeq(d, s, e))

\* the same, a token counting as numeric only with digits around the point
remains_open_decimal(d, s, e) ==
    /\ is_token(d, s, e)
    /\ e - s + 1 >= MinTokenLen
    /\ ~digits_around_point(SubSeq(d, s, e))

Spans(d) == (1..Len(d)) \X (1..Len(d))

\* C9: every token shorter than three characters and every purely numeric
\* token (digits, optionally with one decimal point) is dropped; there is no
\* keyword exactly when no token remains; otherwise the keyword is the upper
\* case of the longest remaining token, the leftmost of the longest ones.
C9_LongestLeftmostToken ==
    keyword /= NotCalled =>
        /\ keyword = None <=> ~\E se \in Spans(details) : remains(details, se[1], se[2])
        /\ keyword /= None =>
              \E se \in Spans(details) :
                  /\ remains(details, se[1], se[2])
                  /\ Len(keyword) = se[2] - se[1] + 1
                  /\ \A i \in 1..Len(keyword) :
                         keyword[i] = upper_char(details[se[1] + i - 1])
                  /\ \A other \in Spans(details) :
                         remains(details, other[1], other[2]) =>
                             /\ other[2] - other[1] <= se[2] - se[1]
                             /\ other[1] < se[1] => other[2] - other[1] < se[2] - se[1]

\* What extraction does: the same selection, with digits that begin or end
\* with the decimal point ("12345.", ".50") kept among the remaining tokens.
LongestLeftmostTokenOpenDecimalsKept ==
    keyword /= NotCalled =>
        /\ keyword = None
               <=> ~\E se \in Spans(details) : remains_open_decimal(details, se[1], se[2])
        /\ keyword /= None =>
              \E se \in Spans(details) :
                  /\ remains_open_decimal(details, se[1], se[2])
                  /\ Len(keyword) = se[2] - se[1] + 1
                  /\ \A i \in 1..Len(keyword) :
                         keyword[i] = upper_char(details[se[1] + i - 1])
                  /\ \A other \in Spans(details) :
                         remains_open_decimal(details, other[1], other[2]) =>
                             /\ other[2] - other[1] <= se[2] - se[1]
                             /\ other[1] < se[1] => other[2] - other[1] < se[2] - se[1]

\* a shorter token remains to the left of the keyword's token, another token
\* of the same length remains to its right, and a numeric token is dropped
LongestLeftmostTokenReached ==
    /\ keyword \notin {NotCalled, None}
    /\ \E se \in Spans(details) :
          /\ remains_open_decimal(details, se[1], se[2])
          /\ keyword = upper(SubSeq(details, se[1], se[2]))
          /\ \E shorter \in Spans(details) :
                 /\ remains_open_decimal(details, shorter[1], shorter[2])
                 /\ shorter[1] < se[1]
                 /\ shorter[2] - shorter[1] < se[2] - se[1]
          /\ \E tie \in Spans(details) :
                 /\ remains_open_decimal(details, tie[1], tie[2])
                 /\ se[1] < tie[1]
                 /\ tie[2] - tie[1] = se[2] - se[1]
                 /\ SubSeq(details, se[1], se[2]) /= SubSeq(details, tie[1], tie[2])
          /\ \E num \in Spans(details) :
                 /\ is_token(details, num[1], num[2])
                 /\ digits_around_point(SubSeq(details, num[1], num[2]))
                 /\ num[2] - num[1] > se[2] - se[1]

\* the keyword is a token of digits ending with the decimal point, longer
\* than a word of the same text
OpenDecimalReturned ==
    /\ keyword \notin {NotCalled, None}
    /\ purely_numeric(keyword)
    /\ \E se \in Spans(details) :
          /\ remains(details, se[1], se[2])
          /\ se[2] - se[1] + 1 < Len(keyword)

(***************************************************************************)
(* Properties of the store, the rule compiler and the learning loop (Spec) *)
(***************************************************************************)
compiled == build_rules_from_storage(categories, keywords)

enabled_keywords_of(kws, cat) == {k \in kws : k.category_id = cat.id /\ k.enabled}

\* the category cat has an enabled keyword whose pattern matches the details d
category_matches(kws, cat, d) ==
    \E k \in enabled_keywords_of(kws, cat) : pattern_matches(k.pattern, k.is_regex, d)

\* C1: a transaction of an uploaded file whose details match enabled patterns
\* of two categories of different priority (and of no other category of a
\* priority as low) is assigned the category of the lower priority value, the
\* one of the two that compiles to a rule ("Uncategorized" never does).
C1_LowerPriorityWins ==
    \A df \in UploadInputs : \A i \in 1..Len(df.Details) : \A A, B \in categories :
        (/\ A.priority < B.priority
         /\ A.name /= Uncategorized
         /\ category_matches(keywords, A, df.Details[i])
         /\ category_matches(keywords, B, df.Details[i])
         /\ \A X \in categories \ {A} :
                category_matches(keywords, X, df.Details[i]) => A.priority < X.priority)
        => LET out == categorize_transactions(categories, keywords, df)
           IN out.status = "returned" /\ out.df.Category[i] = A.name

\* The same, for the runs that return.
LowerPriorityWinsWhenReturned ==
    \A df \in UploadInputs : \A i \in 1..Len(df.Details) : \A A, B \in categories :
        (/\ A.priority < B.priority
         /\ A.name /= Uncategorized
         /\ category_matches(keywords, A, df.Details[i])
         /\ category_matches(keywords, B, df.Details[i])
         /\ \A X \in categories \ {A} :
                category_matches(keywords, X, df.Details[i]) => A.priority < X.priority)
        => LET out == categorize_transactions(categories, keywords, df)
           IN out.status = "returned" => out.df.Category[i] = A.name

\* C6: the compiled list holds exactly one rule for each category that is not
\* named "Uncategorized" and has an enabled keyword, and no other rule; the
\* patterns of a rule are the enabled keywords of its category in ascending id
\* order, each with its own is_regex flag.
C6_OneRulePerActiveCategory ==
    /\ \A c \in categories :
          Cardinality({r \in 1..Len(compiled) : compiled[r].name = c.name})
              = IF c.name /= Uncategorized /\ enabled_keywords_of(keywords, c) /= {}
                THEN 1 ELSE 0
    /\ \A r \in 1..Len(compiled) :
          \E c \in categories :
              LET ks == enabled_keywords_of(keywords, c) IN
                  /\ compiled[r].name = c.name
                  /\ compiled[r].priority = c.priority
                  /\ Len(compiled[r].patterns) = Cardinality(ks)
                  /\ Len(compiled[r].is_regex_flags) = Cardinality(ks)
                  /\ \A k \in ks :
                         LET m == 1 + Cardinality({j \in ks : j.id < k.id}) IN
                             /\ compiled[r].patterns[m] = k.pattern
                             /\ compiled[r].is_regex_flags[m] = k.is_regex

\* one rule with two different patterns is compiled while a category without a
\* rule holds a keyword: "Uncategorized" an enabled one, or another category
\* only a disabled one
C6_Witness ==
    /\ Len(compiled) = 1
    /\ Len(compiled[1].patterns) = 2
    /\ compiled[1].patterns[1] /= compiled[1].patterns[2]
    /\ \E c \in categories : \E k \in keywords :
          /\ k.category_id = c.id
          /\ \/ c.name = Uncategorized /\ k.enabled
             \/ c.name /= Uncategorized /\ ~k.enabled
                /\ enabled_keywords_of(keywords, c) = {}

\* C7: the compiled list is in ascending priority order, and rules of equal
\* priority are in ascending order of their names, whatever the ids.
C7_PriorityThenNameOrder ==
    \A r, q \in 1..Len(compiled) :
        r < q => \/ compiled[r].priority < compiled[q].priority
                 \/ /\ compiled[r].priority = compiled[q].priority
                    /\ text_less(compiled[r].name, compiled[q].name)

\* two rules of equal priority, the first one of the category created last
C7_Witness ==
    /\ Len(compiled) = 2
    /\ compiled[1].priority = compiled[2].priority
    /\ compiled[1].name = NameA /\ compiled[2].name = NameB
    /\ \E a, b \in categories : a.name = NameA /\ b.name = NameB /\ a.id > b.id

\* C8: with an enabled keyword k disabled, the compiled list is the one of the
\* store without k (no pattern of k, and no rule for its category when k was
\* its only enabled keyword); with k enabled again it is the list compiled
\* before, rule for rule and pattern for pattern.
C8_DisableThenEnableRestores ==
    \A k \in keywords :
        k.enabled =>
            LET off == toggle_keyword_rows(keywords, k.id, FALSE)
                on == toggle_keyword_rows(off, k.id, TRUE)
            IN /\ build_rules_from_storage(categories, off)
                      = build_rules_from_storage(categories, keywords \ {k})
               /\ (\A c \in categories :
                       (k.category_id = c.id /\ enabled_keywords_of(keywords, c) = {k})
                       => \A r \in 1..Len(build_rules_from_storage(categories, off)) :
                              build_rules_from_storage(categories, off)[r].name /= c.name)
               /\ build_rules_from_storage(categories, on) = compiled

\* a keyword has been disabled; an enabled keyword of a compiled rule is
\* followed by another enabled keyword of the same rule
C8_Witness ==
    /\ \E k \in keywords : ~k.enabled
    /\ \E c \in categories : \E k, l \in enabled_keywords_of(keywords, c) :
          /\ c.name /= Uncategorized
          /\ k.id < l.id
          /\ k.pattern /= l.pattern

\* the session s is at the insert of the learning loop: the row it handles
\* and the keyword extracted from its details
learned_row(s) == Head(running[s].todo)
learned_keyword(s) == extract_keyword_from_details(learned_row(s).Details)

\* the keyword learned by session s is persisted, enabled and not a regex,
\* under the id its lookup returned
persisted(kws, s) ==
    \E k \in kws :
        /\ k.pattern = learned_keyword(s)
        /\ k.category_id = running[s].cat_id
        /\ k.enabled
        /\ ~k.is_regex

\* the details d contain the keyword kw, ignoring case
details_contain(d, kw) == contains(lower(d), lower(kw))

\* files of the next run: without a Category column, and with one whose values
\* are "Uncategorized", a name assigned outside the store, or missing
NextRunCategories == {Uncategorized, PreAssigned, NaN}
NextRunInputs ==
    UploadInputs
        \cup UNION {{[has_category |-> TRUE, Details |-> d, Category |-> c] :
                        c \in [1..Len(d) -> NextRunCategories]} :
                    d \in SeqsUpTo(UploadDetails, MaxUpload) \ {<<>>}}

\* C10: when the learning loop handles a row changed to the category new, the
\* keyword extracted from its details is persisted as an enabled non-regex
\* keyword under the id of new, and the subsequent run (recompile from the
\* store, then classify) assigns new to every transaction whose details
\* contain the keyword.
C10_LearnedKeywordAlwaysWins ==
    [][\A s \in Sessions :
          learn_add_keyword_of(s) =>
              /\ persisted(keywords', s)
              /\ \A df \in NextRunInputs :
                     LET out == categorize_transactions(categories', keywords', df)
                     IN /\ out.status = "returned"
                        /\ \A i \in 1..Len(df.Details) :
                               details_contain(df.Details[i], learned_keyword(s))
                               => out.df.Category[i] = learned_row(s).NewCategory]_vars

\* What the learning loop and the runs that return do: the keyword is
\* persisted as an enabled non-regex keyword under the id that new resolved
\* to; when the category of that id is still there at the insert, a run that
\* returns leaves a transaction that entered with a category its category,
\* and gives a transaction that entered "Uncategorized" and whose details
\* contain the keyword either new or the name of a matching rule that the
\* compiled order puts before the rule of new ("Uncategorized" has no rule).
LearnedKeywordWinsUnlessPreceded ==
    [][\A s \in Sessions :
          learn_add_keyword_of(s) =>
              /\ persisted(keywords', s)
              /\ (\E c \in categories' : c.id = running[s].cat_id) =>
                 \A df \in NextRunInputs :
                     LET out == categorize_transactions(categories', keywords', df)
                         after == build_rules_from_storage(categories', keywords')
                         new == learned_row(s).NewCategory
                     IN IF out.status = "raised"
                        THEN \E r \in 1..Len(after) : has_malformed(after[r])
                        ELSE \A i \in 1..Len(df.Details) :
                                details_contain(df.Details[i], learned_keyword(s)) =>
                                    IF entered_as(df, i) /= Uncategorized
                                    THEN out.df.Category[i] = entered_as(df, i)
                                    ELSE \/ out.df.Category[i] = new
                                         \/ \E q \in 1..Len(after) :
                                               /\ after[q].name = out.df.Category[i]
                                               /\ rule_matches(after[q], df.Details[i])
                                               /\ \A r \in 1..Len(after) :
                                                      after[r].name = new => q < r]_vars

\* a session's loop has inserted the keyword of its first row under the id of
\* category B and stands at its second row; B holds the keyword that
\* extraction yields for the details "aba 12", enabled and not a regex, and
\* the run on a file with these details assigns B
LearnedKeywordWinsReached ==
    /\ \E c \in categories : \E k \in keywords : \E s \in Sessions :
          /\ c.name = NameB
          /\ running[s].pc = "learn_get_category_id"
          /\ running[s].cat_id = c.id
          /\ k.category_id = c.id
          /\ k.pattern = extract_keyword_from_details(DetailsAba)
          /\ k.enabled /\ ~k.is_regex
    /\ LET out == categorize_transactions(categories, keywords,
                      [has_category |-> FALSE, Details |-> <<DetailsAba>>,
                       Category |-> <<>>])
       IN out.status = "returned" /\ out.df.Category[1] = NameB

\* a keyword learned under the id of category B is in the store next to an
\* enabled regex keyword that does not compile, held by a category whose rule
\* follows B's, and the run on a file with the details "aba 12" and "12" aborts
LearnedKeywordRunAborts ==
    /\ \E c, a \in categories : \E k, m \in keywords :
          /\ c.name = NameB
          /\ k.category_id = c.id
          /\ k.pattern = extract_keyword_from_details(DetailsAba)
          /\ k.enabled /\ ~k.is_regex
          /\ a.name = NameA
          /\ c.priority < a.priority
          /\ m.category_id = a.id
          /\ m.enabled /\ m.is_regex /\ re_compile_fails(m.pattern)
          /\ \A x \in keywords : x.category_id = a.id => x = m
    /\ categorize_transactions(categories, keywords,
           [has_category |-> FALSE, Details |-> <<DetailsAba, DetailsNum>>,
            Category |-> <<>>]).status = "raised"
    /\ categorize_transactions(categories, keywords,
           [has_category |-> FALSE, Details |-> <<DetailsAba>>,
            Category |-> <<>>]).status = "returned"

\* session s enters the learning loop: the click on the button for a table
\* with a changed row whose details yield a keyword
learn_entered(s) ==
    at_rest(s) /\ running'[s].pc = "learn_get_category_id"

\* the learning loop of session s takes a step
learning_step(s) ==
    \/ learn_entered(s)
    \/ learn_get_category_id_of(s)
    \/ learn_add_keyword_of(s)

\* C11: no step of the learning loop creates, deletes or modifies a category
\* or removes or modifies a keyword. The store changes only in the insert of
\* a row whose category was changed, whose details yield a keyword and whose
\* new category name resolved to the id of a category, found by the lookup;
\* the insert adds exactly one keyword, enabled, not a regex and bound to
\* that id. For every other row the store is left as it is.
C11_LearningWritesOnlyLearnedKeywords ==
    [][\A s \in Sessions :
          /\ learning_step(s) =>
                /\ categories' = categories
                /\ seq_categories' = seq_categories
                /\ keywords \subseteq keywords'
                /\ keywords' /= keywords => learn_add_keyword_of(s)
          /\ learn_get_category_id_of(s) =>
                LET row == learned_row(s)
                    cat_id == get_category_id_by_name(categories, row.NewCategory)
                IN IF running'[s].pc = "learn_add_keyword"
                   THEN /\ row.Category /= row.NewCategory
                        /\ learned_keyword(s) /= None
                        /\ cat_id /= NoId
                        /\ \E c \in categories : c.id = cat_id
                        /\ running'[s].cat_id = cat_id
                        /\ running'[s].todo = running[s].todo
                   ELSE cat_id = NoId
          /\ learn_add_keyword_of(s) =>
                \E k \in keywords' \ keywords :
                    /\ keywords' = keywords \cup {k}
                    /\ k.pattern = learned_keyword(s)
                    /\ k.category_id = running[s].cat_id
                    /\ k.enabled
                    /\ ~k.is_regex
          /\ learn_entered(s) =>
                /\ \A n \in 1..Len(running'[s].todo) :
                       running'[s].todo[n].Category /= running'[s].todo[n].NewCategory
                /\ \E merged \in EditInputs :
                       \A n \in 1..Len(running'[s].todo) :
                           \E m \in 1..Len(merged) : merged[m] = running'[s].todo[n]]_vars

\* the loop has written the keyword of its first row and stands at the lookup
\* of its second one, whose new category B is there no more
C11_Witness ==
    \E s \in Sessions :
        /\ running[s].pc = "learn_get_category_id"
        /\ running[s].cat_id /= NoId
        /\ Len(running[s].todo) = 1
        /\ ~\E c \in categories : c.name = NameB
        /\ \E k \in keywords :
              /\ k.pattern = extract_keyword_from_details(DetailsAba)
              /\ k.enabled /\ ~k.is_regex
              /\ keywords = {k}

\* the text is empty or holds only whitespace
is_blank(t) == strip(t) = <<>>

\* C12: no persisted keyword has an empty or whitespace-only pattern and no
\* persisted category an empty or whitespace-only name, in every state reached
\* through init_db with its JSON migration, the create, delete and toggle
\* handlers and the learning step; add_category and add_keyword called with an
\* empty or whitespace-only text leave the store as it is.
C12_NoBlankTextStored ==
    /\ \A k \in keywords : ~is_blank(k.pattern)
    /\ \A c \in categories : ~is_blank(c.name)
    /\ \A name \in NameInputs, priority \in PriorityInputs :
          is_blank(name) =>
              add_category_rows(categories, seq_categories, name, priority)
                  = [rows |-> categories, seq |-> seq_categories]
    /\ \A kw \in KeywordInputs, c \in categories :
          is_blank(kw[1]) =>
              add_keyword_rows(keywords, seq_keywords, c.id, kw[1], kw[2])
                  = [rows |-> keywords, seq |-> seq_keywords]

\* a session's migration stands at the second entry "B" of the file, having
\* stored category "B" and the keyword "ABA" from the padded texts " B" and
\* " ABA" of the first entry and passed over its blank keyword
C12_Witness ==
    /\ \E s \in Sessions :
          /\ running[s].pc = "add_category"
          /\ Len(running[s].data) = 1
          /\ Head(running[s].data).name = NameB
    /\ \E c \in categories :
          /\ c.name = NameB
          /\ \E k \in keywords :
                k.category_id = c.id /\ k.pattern = TypedKeyword /\ ~k.is_regex
    /\ \E name \in NameInputs : is_blank(name)
    /\ \E kw \in KeywordInputs : is_blank(kw[1])

\* C13: in every state reached through the dashboard's handlers a category
\* named "Uncategorized" exists, and no category has a priority value
\* strictly larger than it.
C13_UncategorizedExistsWithLargestPriority ==
    /\ \E c \in categories : c.name = Uncategorized
    /\ \A u, c \in categories :
          u.name = Uncategorized => c.priority <= u.priority

\* after a category was deleted, which its keyword shows, "Uncategorized" is
\* there next to a category created with the largest priority the dashboard
\* accepts
C13_Witness ==
    /\ \E k \in keywords : \A c \in categories : c.id /= k.category_id
    /\ \E u, c \in categories :
          /\ u.name = Uncategorized
          /\ c.name /= Uncategorized
          /\ c.priority = MaxPriority
          /\ c.priority = u.priority

\* C14: every persisted keyword's category_id is the id of a category that
\* currently exists, delete_category having removed the keywords of the
\* category along with it.
C14_NoOrphanedKeywords ==
    \A k \in keywords : \E c \in categories : c.id = k.category_id

====
